---- MODULE Spec2Model ----
(***************************************************************************)
(* State-machine model of src/cache.js: promise wrappers around the        *)
(* IndexedDB database "BalatroCacheDB" and its object store "cache".       *)
(*                                                                         *)
(* A call slot c holds one invocation of loadCachedGame, saveGameToCache,  *)
(* deleteCachedGame or listCachedVersions.  Every event handler of the     *)
(* source is one action; the browser runs the microtasks of a handler      *)
(* before it dispatches the next event, so the states between two handlers *)
(* are observable by the caller.  The backend (IndexedDB) is modelled by   *)
(* its contract: requests of one transaction run while it holds the store  *)
(* (read-write transactions exclusively, in creation order), a request     *)
(* fails or a transaction aborts at the backend's choice, an error event   *)
(* of a request bubbles to its transaction and then aborts it.             *)
(***************************************************************************)
EXTENDS Naturals, Sequences, FiniteSets, TLC

\* ---------------------------------------------------------------- bounds
NumCalls == 2    \* call slots: calls that may be in flight together
MaxKey   == 1    \* keys are KeyName(0) .. KeyName(MaxKey)
NumBlobs == 1    \* truthy payloads BlobName(1) .. BlobName(NumBlobs)

Calls == 1..NumCalls

\* ---------------------------------------------------------------- values
Undefined == "undefined"   \* JS undefined: omitted argument, result of a get miss
Null      == "null"        \* JS null
Zero      == "zero"        \* the number 0: a storable value that is falsy
Function  == "function"    \* a value the structured clone refuses (put throws)
Absent    == "absent"      \* no entry under the key

KeyName(i)  == IF i = 0 THEN "vanilla" ELSE "x" \o ToString(i)
BlobName(i) == "blob" \o ToString(i)

KeyIdx  == 0..MaxKey
Keys    == {KeyName(i) : i \in KeyIdx}
Blobs   == {BlobName(i) : i \in 1..NumBlobs}
StorableValues == {Zero} \cup Blobs
KeyArgs  == Keys \cup {Undefined}
BlobArgs == StorableValues \cup {Function}

VARIABLES
    op,          \* op[c]: which function slot c runs ("none" before the first call)
    key,         \* key[c]: the key parameter after defaulting
    blob,        \* blob[c]: the blob parameter of saveGameToCache
    pc,          \* pc[c]: position of the call
    db,          \* db[c]: the connection of the call: "none", "open", "closed"
    promise,     \* promise[c]: "pending", "resolved", "rejected"
    result,      \* result[c]: the value the promise settled with
    found_keys,  \* found_keys[c]: the array of listCachedVersions
    cursor,      \* cursor[c]: index of the next key the cursor looks at
    blocked,     \* blocked[c]: the open request got a 'blocked' event (logged)
    dbVersion,   \* version of BalatroCacheDB: 0 (does not exist) or 1
    storeCreated,\* object stores named "cache" that createObjectStore made
                 \* and the backend kept
    cache,       \* the object store: key -> value or Absent
    txQueue,     \* live transactions (their calls), in creation order
    awaiting,    \* the caller awaits each call before it makes the next one
    cur,         \* awaiting caller: the slot of its latest call (0: none yet)
    last,        \* awaiting caller: last[k] is what its latest resolved save
                 \* or delete of k left under k (Absent before the first)
    had          \* awaiting caller: had[k] iff that save or delete found an
                 \* entry under k (one left by an earlier resolved save)

vars == <<op, key, blob, pc, db, promise, result, found_keys, cursor, blocked,
          dbVersion, storeCreated, cache, txQueue,
          awaiting, cur, last, had>>

callerVars == <<awaiting, cur, last, had>>

callVars == <<op, key, blob>>

\* ---------------------------------------------------------------- helpers
\* the default parameter value key = "vanilla"
DefaultKey(k) == IF k = Undefined THEN "vanilla" ELSE k

\* JS truthiness of the values of the model
Truthy(v) == v \notin {Undefined, Null, Zero}

\* variant: resolve(getReq.result), the miss is passed on as undefined
OrNull_passthrough(v) == v

\* getReq.result || null
OrNull(v) == IF Truthy(v) THEN v ELSE Null

\* store.get(key): the value, undefined when there is no entry
Get(s, k) == IF s[k] = Absent THEN Undefined ELSE s[k]

\* a key IndexedDB accepts
ValidKey(k) == k \in Keys

Mode(c) == IF op[c] \in {"save", "delete"} THEN "readwrite" ELSE "readonly"

Remove(q, c) == SelectSeq(q, LAMBDA d : d # c)

Position(q, c) == CHOOSE i \in 1..Len(q) : q[i] = c

InQueue(c) == \E i \in 1..Len(txQueue) : txQueue[i] = c

\* the backend runs the requests of c's transaction: every live transaction
\* created before it is read-only, and so is c's, or there is none
CanRun(c) ==
    /\ InQueue(c)
    /\ \A i \in 1..(Position(txQueue, c) - 1) :
          Mode(txQueue[i]) = "readonly" /\ Mode(c) = "readonly"

\* the call of slot c is over: promise settled and transaction finished
Finished(c) == pc[c] \in {"idle", "openFailed", "complete", "aborted"}

InitProgram ==
    /\ op = [c \in Calls |-> "none"]
    /\ key = [c \in Calls |-> Undefined]
    /\ blob = [c \in Calls |-> Undefined]
    /\ pc = [c \in Calls |-> "idle"]
    /\ db = [c \in Calls |-> "none"]
    /\ promise = [c \in Calls |-> "pending"]
    /\ result = [c \in Calls |-> Undefined]
    /\ found_keys = [c \in Calls |-> <<>>]
    /\ cursor = [c \in Calls |-> 0]
    /\ blocked = [c \in Calls |-> FALSE]
    /\ dbVersion = 0
    /\ storeCreated = 0
    /\ cache = [k \in Keys |-> Absent]
    /\ txQueue = <<>>
    /\ cur = 0
    /\ last = [k \in Keys |-> Absent]
    /\ had = [k \in Keys |-> FALSE]

\* calls start at any time: up to NumCalls of them are in flight together
Init == InitProgram /\ awaiting = FALSE

\* the caller awaits each call before it makes the next one
\* (await saveGameToCache(b, k); await loadCachedGame(k); ...)
SeqInit == InitProgram /\ awaiting = TRUE

\* ------------------------------------------------------- promise settling
\* resolve(v) / reject(e): a promise settles once, later calls are no-ops
Settle(c, how, v) ==
    /\ promise' = IF promise[c] = "pending" THEN [promise EXCEPT ![c] = how] ELSE promise
    /\ result'  = IF promise[c] = "pending" THEN [result EXCEPT ![c] = v] ELSE result

\* the slot a new call takes: the lowest one whose call is over
FreeSlot(c) == Finished(c) /\ \A d \in Calls : Finished(d) => c <= d

AllSettled == \A d \in Calls : op[d] = "none" \/ promise[d] # "pending"

\* what a resolved save or delete tells an awaiting caller about its key
Observe(c) ==
    IF awaiting /\ promise[c] = "pending"
      THEN /\ last' = [last EXCEPT ![key[c]] = IF op[c] = "save" THEN blob[c] ELSE Absent]
           /\ had' = [had EXCEPT ![key[c]] = last[key[c]] # Absent]
           /\ UNCHANGED <<awaiting, cur>>
      ELSE UNCHANGED callerVars

\* a call starts: openGameDB() issues indexedDB.open("BalatroCacheDB", 1)
openGameDB(c, o, k, b) ==
    /\ FreeSlot(c)
    /\ awaiting => AllSettled
    /\ cur' = IF awaiting THEN c ELSE cur
    /\ UNCHANGED <<awaiting, last, had>>
    /\ op' = [op EXCEPT ![c] = o]
    /\ key' = [key EXCEPT ![c] = k]
    /\ blob' = [blob EXCEPT ![c] = b]
    /\ pc' = [pc EXCEPT ![c] = "opening"]
    /\ db' = [db EXCEPT ![c] = "none"]
    /\ promise' = [promise EXCEPT ![c] = "pending"]
    /\ result' = [result EXCEPT ![c] = Undefined]
    /\ found_keys' = [found_keys EXCEPT ![c] = <<>>]
    /\ cursor' = [cursor EXCEPT ![c] = 0]
    /\ blocked' = [blocked EXCEPT ![c] = FALSE]
    /\ UNCHANGED <<dbVersion, storeCreated, cache, txQueue>>

loadCachedGame(c) ==
    \E k \in KeyArgs : openGameDB(c, "load", DefaultKey(k), Undefined)

saveGameToCache(c) ==
    \E b \in BlobArgs, k \in KeyArgs : openGameDB(c, "save", DefaultKey(k), b)

deleteCachedGame(c) ==
    \E k \in KeyArgs : openGameDB(c, "delete", k, Undefined)

listCachedVersions(c) ==
    openGameDB(c, "list", Undefined, Undefined)

\* ------------------------------------------------------------ open request
Upgrading == \E d \in Calls : pc[d] = "upgrading"

\* variant: createObjectStore("cache") runs on every open (in onsuccess, or
\* with a version that grows with each open)
request_onupgradeneeded_always(c) ==
    /\ pc[c] = "opening"
    /\ ~Upgrading
    /\ storeCreated' = storeCreated + 1
    /\ dbVersion' = 1
    /\ pc' = [pc EXCEPT ![c] = "upgrading"]
    /\ UNCHANGED <<callVars, callerVars, db, promise, result, found_keys, cursor, blocked,
                   cache, txQueue>>

\* request.onupgradeneeded: fires when the database is older than version 1
request_onupgradeneeded(c) ==
    /\ pc[c] = "opening"
    /\ dbVersion = 0
    /\ ~Upgrading
    /\ storeCreated' = storeCreated + 1
    /\ dbVersion' = 1
    /\ pc' = [pc EXCEPT ![c] = "upgrading"]
    /\ UNCHANGED <<callVars, callerVars, db, promise, result, found_keys, cursor, blocked,
                   cache, txQueue>>

\* variant: request.onblocked = () => reject(new Error("blocked"))
request_onblocked_rejects(c) ==
    /\ pc[c] = "opening"
    /\ dbVersion = 0
    /\ ~blocked[c]
    /\ blocked' = [blocked EXCEPT ![c] = TRUE]
    /\ Settle(c, "rejected", "blocked")
    /\ UNCHANGED <<callVars, callerVars, pc, db, found_keys, cursor,
                   dbVersion, storeCreated, cache, txQueue>>

\* request.onblocked: logs, neither resolves nor rejects
request_onblocked(c) ==
    /\ pc[c] = "opening"
    /\ dbVersion = 0
    /\ ~blocked[c]
    /\ blocked' = [blocked EXCEPT ![c] = TRUE]
    /\ UNCHANGED <<callVars, callerVars, pc, db, promise, result, found_keys, cursor,
                   dbVersion, storeCreated, cache, txQueue>>

\* variant: request.onerror = () => console.error(request.error), no reject
request_onerror_suppressed(c) ==
    /\ \/ /\ pc[c] = "opening"
          /\ UNCHANGED <<dbVersion, storeCreated>>
       \/ /\ pc[c] = "upgrading"
          /\ dbVersion' = 0
          /\ storeCreated' = storeCreated - 1
    /\ pc' = [pc EXCEPT ![c] = "openFailed"]
    /\ UNCHANGED <<callVars, callerVars, db, promise, result, found_keys, cursor,
                   blocked, cache, txQueue>>

\* request.onerror: reject(request.error); the call never gets a connection.
\* An open that fails after onupgradeneeded had its version change aborted:
\* the backend rolls the new store back and the database stays at version 0.
request_onerror(c) ==
    /\ \/ /\ pc[c] = "opening"
          /\ UNCHANGED <<dbVersion, storeCreated>>
       \/ /\ pc[c] = "upgrading"
          /\ dbVersion' = 0
          /\ storeCreated' = storeCreated - 1
    /\ Settle(c, "rejected", "openError")
    /\ pc' = [pc EXCEPT ![c] = "openFailed"]
    /\ UNCHANGED <<callVars, callerVars, db, found_keys, cursor, blocked,
                   cache, txQueue>>

\* the executor of the call's promise: db.transaction("cache", mode), the
\* store request, then the handlers.  A request that throws (an invalid key,
\* a value that cannot be cloned) leaves the executor before any handler is
\* set: the promise rejects with the exception, the transaction stays empty.
Throws(c) ==
    \/ op[c] = "delete" /\ ~ValidKey(key[c])
    \/ op[c] = "save" /\ blob[c] = Function

executor(c) ==
    /\ txQueue' = Append(txQueue, c)
    /\ IF Throws(c)
         THEN /\ Settle(c, "rejected", "exception")
              /\ pc' = [pc EXCEPT ![c] = "threw"]
         ELSE /\ pc' = [pc EXCEPT ![c] = "active"]
              /\ UNCHANGED <<promise, result>>

\* request.onsuccess: resolve(request.result); the awaiting call goes on
\* with its executor in the same task
request_onsuccess(c) ==
    /\ \/ pc[c] = "upgrading"
       \/ pc[c] = "opening" /\ dbVersion = 1 /\ ~Upgrading
    /\ db' = [db EXCEPT ![c] = "open"]
    /\ executor(c)
    /\ UNCHANGED <<callVars, callerVars, found_keys, cursor, blocked,
                   dbVersion, storeCreated, cache>>

\* variant: one module-level connection shared by the calls: close() closes
\* the connection under every call that has it open
Close_shared(c) == db' = [d \in Calls |-> IF db[d] = "open" THEN "closed" ELSE db[d]]

\* db.close() of the call's own connection
Close(c) == db' = [db EXCEPT ![c] = "closed"]

\* the backend is done with the transaction of c
Finish(c) == txQueue' = Remove(txQueue, c)

\* a transaction whose executor threw has no request and no handler: it
\* finishes unobserved and nothing closes the connection
transaction_unhandled(c) ==
    /\ pc[c] = "threw"
    /\ pc' = [pc EXCEPT ![c] = "complete"]
    /\ Finish(c)
    /\ UNCHANGED <<callVars, callerVars, db, promise, result, found_keys, cursor, blocked,
                   dbVersion, storeCreated, cache>>

\* ---------------------------------------------------------- loadCachedGame
\* getReq.onsuccess = () => resolve(getReq.result || null)
getReq_onsuccess(c) ==
    /\ op[c] = "load" /\ pc[c] = "active" /\ CanRun(c)
    /\ Settle(c, "resolved", OrNull(Get(cache, key[c])))
    /\ pc' = [pc EXCEPT ![c] = "reqSuccess"]
    /\ UNCHANGED <<callVars, callerVars, db, found_keys, cursor, blocked,
                   dbVersion, storeCreated, cache, txQueue>>

\* variant: getReq.onerror = () => console.error(getReq.error), no reject
getReq_onerror_silent(c) ==
    /\ op[c] = "load" /\ pc[c] = "active"
    /\ pc' = [pc EXCEPT ![c] = "reqError"]
    /\ UNCHANGED <<callVars, callerVars, db, promise, result, found_keys, cursor, blocked,
                   dbVersion, storeCreated, cache, txQueue>>

\* getReq.onerror = () => reject(getReq.error)
getReq_onerror(c) ==
    /\ op[c] = "load" /\ pc[c] = "active"
    /\ Settle(c, "rejected", "requestError")
    /\ pc' = [pc EXCEPT ![c] = "reqError"]
    /\ UNCHANGED <<callVars, callerVars, db, found_keys, cursor, blocked,
                   dbVersion, storeCreated, cache, txQueue>>

\* transaction.oncomplete = () => db.close()
load_transaction_oncomplete(c) ==
    /\ op[c] = "load" /\ pc[c] = "reqSuccess"
    /\ Close(c)
    /\ Finish(c)
    /\ pc' = [pc EXCEPT ![c] = "complete"]
    /\ UNCHANGED <<callVars, callerVars, promise, result, found_keys, cursor, blocked,
                   dbVersion, storeCreated, cache>>

\* transaction.onerror = () => db.close(): the request's error event bubbles
load_transaction_onerror(c) ==
    /\ op[c] = "load" /\ pc[c] = "reqError"
    /\ Close(c)
    /\ pc' = [pc EXCEPT ![c] = "txError"]
    /\ UNCHANGED <<callVars, callerVars, promise, result, found_keys, cursor, blocked,
                   dbVersion, storeCreated, cache, txQueue>>

\* transaction.onabort = () => db.close(): after an error event, or when the
\* backend aborts the transaction after its request succeeded
load_transaction_onabort(c) ==
    /\ op[c] = "load" /\ pc[c] \in {"txError", "reqSuccess"}
    /\ Close(c)
    /\ Finish(c)
    /\ pc' = [pc EXCEPT ![c] = "aborted"]
    /\ UNCHANGED <<callVars, callerVars, promise, result, found_keys, cursor, blocked,
                   dbVersion, storeCreated, cache>>

\* --------------------------------------------------------- saveGameToCache
\* variant: putReq.onsuccess = () => resolve(), before the transaction commits
putReq_success_resolves(c) ==
    /\ op[c] = "save" /\ pc[c] = "active" /\ CanRun(c)
    /\ Settle(c, "resolved", Undefined)
    /\ pc' = [pc EXCEPT ![c] = "reqSuccess"]
    /\ UNCHANGED <<callVars, callerVars, db, found_keys, cursor, blocked,
                   dbVersion, storeCreated, cache, txQueue>>

\* variant: the put reaches the store outside the transaction (as with one
\* transaction per request that has already committed): an abort keeps it
putReq_success_writes(c) ==
    /\ op[c] = "save" /\ pc[c] = "active" /\ CanRun(c)
    /\ cache' = [cache EXCEPT ![key[c]] = blob[c]]
    /\ pc' = [pc EXCEPT ![c] = "reqSuccess"]
    /\ UNCHANGED <<callVars, callerVars, db, promise, result, found_keys, cursor, blocked,
                   dbVersion, storeCreated, txQueue>>

\* store.put(blob, key) succeeds; the source sets no putReq.onsuccess.  The
\* write stays inside the transaction until it commits.
putReq_success(c) ==
    /\ op[c] = "save" /\ pc[c] = "active" /\ CanRun(c)
    /\ pc' = [pc EXCEPT ![c] = "reqSuccess"]
    /\ UNCHANGED <<callVars, callerVars, db, promise, result, found_keys, cursor, blocked,
                   dbVersion, storeCreated, cache, txQueue>>

\* putReq.onerror = () => reject(putReq.error)
putReq_onerror(c) ==
    /\ op[c] = "save" /\ pc[c] = "active"
    /\ Settle(c, "rejected", "requestError")
    /\ pc' = [pc EXCEPT ![c] = "reqError"]
    /\ UNCHANGED <<callVars, callerVars, db, found_keys, cursor, blocked,
                   dbVersion, storeCreated, cache, txQueue>>

\* variant: store.put(blob) with the key dropped, the entry goes under the
\* default key
save_transaction_oncomplete_defaultkey(c) ==
    /\ op[c] = "save" /\ pc[c] = "reqSuccess"
    /\ cache' = [cache EXCEPT !["vanilla"] = blob[c]]
    /\ Close(c)
    /\ Settle(c, "resolved", Undefined)
    /\ Observe(c)
    /\ Finish(c)
    /\ pc' = [pc EXCEPT ![c] = "complete"]
    /\ UNCHANGED <<callVars, found_keys, cursor, blocked, dbVersion, storeCreated>>

\* the transaction commits its put, then
\* transaction.oncomplete = () => { db.close(); resolve(); }
save_transaction_oncomplete(c) ==
    /\ op[c] = "save" /\ pc[c] = "reqSuccess"
    /\ cache' = [cache EXCEPT ![key[c]] = blob[c]]
    /\ Close(c)
    /\ Settle(c, "resolved", Undefined)
    /\ Observe(c)
    /\ Finish(c)
    /\ pc' = [pc EXCEPT ![c] = "complete"]
    /\ UNCHANGED <<callVars, found_keys, cursor, blocked, dbVersion, storeCreated>>

\* transaction.onerror = () => { db.close(); reject(transaction.error); }
save_transaction_onerror(c) ==
    /\ op[c] = "save" /\ pc[c] = "reqError"
    /\ Close(c)
    /\ Settle(c, "rejected", "transactionError")
    /\ pc' = [pc EXCEPT ![c] = "txError"]
    /\ UNCHANGED <<callVars, callerVars, found_keys, cursor, blocked,
                   dbVersion, storeCreated, cache, txQueue>>

\* transaction.onabort = () => { db.close(); reject(transaction.error); }
\* the put of an aborted transaction is discarded
save_transaction_onabort(c) ==
    /\ op[c] = "save" /\ pc[c] \in {"txError", "reqSuccess"}
    /\ Close(c)
    /\ Settle(c, "rejected", "transactionError")
    /\ Finish(c)
    /\ pc' = [pc EXCEPT ![c] = "aborted"]
    /\ UNCHANGED <<callVars, callerVars, found_keys, cursor, blocked,
                   dbVersion, storeCreated, cache>>

\* -------------------------------------------------------- deleteCachedGame
\* store.delete(key) succeeds (also when there is no entry); no onsuccess
deleteReq_success(c) ==
    /\ op[c] = "delete" /\ pc[c] = "active" /\ CanRun(c)
    /\ pc' = [pc EXCEPT ![c] = "reqSuccess"]
    /\ UNCHANGED <<callVars, callerVars, db, promise, result, found_keys, cursor, blocked,
                   dbVersion, storeCreated, cache, txQueue>>

\* deleteReq.onerror = () => reject(deleteReq.error)
deleteReq_onerror(c) ==
    /\ op[c] = "delete" /\ pc[c] = "active"
    /\ Settle(c, "rejected", "requestError")
    /\ pc' = [pc EXCEPT ![c] = "reqError"]
    /\ UNCHANGED <<callVars, callerVars, db, found_keys, cursor, blocked,
                   dbVersion, storeCreated, cache, txQueue>>

\* variant: the request is store.get(key), nothing is removed
delete_transaction_oncomplete_keeps(c) ==
    /\ op[c] = "delete" /\ pc[c] = "reqSuccess"
    /\ Close(c)
    /\ Settle(c, "resolved", Undefined)
    /\ Observe(c)
    /\ Finish(c)
    /\ pc' = [pc EXCEPT ![c] = "complete"]
    /\ UNCHANGED <<callVars, found_keys, cursor, blocked, dbVersion, storeCreated,
                   cache>>

\* variant: the request is store.clear(), every entry is removed
delete_transaction_oncomplete_clears(c) ==
    /\ op[c] = "delete" /\ pc[c] = "reqSuccess"
    /\ cache' = [k \in Keys |-> Absent]
    /\ Close(c)
    /\ Settle(c, "resolved", Undefined)
    /\ Observe(c)
    /\ Finish(c)
    /\ pc' = [pc EXCEPT ![c] = "complete"]
    /\ UNCHANGED <<callVars, found_keys, cursor, blocked, dbVersion, storeCreated>>

\* the transaction commits its delete, then
\* transaction.oncomplete = () => { db.close(); resolve(); }
delete_transaction_oncomplete(c) ==
    /\ op[c] = "delete" /\ pc[c] = "reqSuccess"
    /\ cache' = [cache EXCEPT ![key[c]] = Absent]
    /\ Close(c)
    /\ Settle(c, "resolved", Undefined)
    /\ Observe(c)
    /\ Finish(c)
    /\ pc' = [pc EXCEPT ![c] = "complete"]
    /\ UNCHANGED <<callVars, found_keys, cursor, blocked, dbVersion, storeCreated>>

\* transaction.onerror = () => { db.close(); reject(transaction.error); }
delete_transaction_onerror(c) ==
    /\ op[c] = "delete" /\ pc[c] = "reqError"
    /\ Close(c)
    /\ Settle(c, "rejected", "transactionError")
    /\ pc' = [pc EXCEPT ![c] = "txError"]
    /\ UNCHANGED <<callVars, callerVars, found_keys, cursor, blocked,
                   dbVersion, storeCreated, cache, txQueue>>

\* transaction.onabort = () => { db.close(); reject(transaction.error); }
delete_transaction_onabort(c) ==
    /\ op[c] = "delete" /\ pc[c] \in {"txError", "reqSuccess"}
    /\ Close(c)
    /\ Settle(c, "rejected", "transactionError")
    /\ Finish(c)
    /\ pc' = [pc EXCEPT ![c] = "aborted"]
    /\ UNCHANGED <<callVars, callerVars, found_keys, cursor, blocked,
                   dbVersion, storeCreated, cache>>

\* ------------------------------------------------------ listCachedVersions
\* the entries at or after index i, in key order
EntriesFrom(i) == {j \in KeyIdx : j >= i /\ cache[KeyName(j)] # Absent}

NextEntry(i) == CHOOSE j \in EntriesFrom(i) : \A l \in EntriesFrom(i) : j <= l

\* variant: cursor.continue() is missing, the scan stops after the first key
cursorReq_onsuccess_nocontinue(c) ==
    /\ op[c] = "list" /\ pc[c] = "active" /\ CanRun(c)
    /\ \/ /\ EntriesFrom(cursor[c]) # {}
          /\ found_keys' = [found_keys EXCEPT
                              ![c] = Append(@, KeyName(NextEntry(cursor[c])))]
          /\ cursor' = [cursor EXCEPT ![c] = NextEntry(cursor[c]) + 1]
          /\ pc' = [pc EXCEPT ![c] = "reqSuccess"]
       \/ /\ EntriesFrom(cursor[c]) = {}
          /\ pc' = [pc EXCEPT ![c] = "reqSuccess"]
          /\ UNCHANGED <<found_keys, cursor>>
    /\ UNCHANGED <<callVars, callerVars, db, promise, result, blocked,
                   dbVersion, storeCreated, cache, txQueue>>

\* cursorReq.onsuccess: push cursor.key and continue, or stop at a null cursor
cursorReq_onsuccess(c) ==
    /\ op[c] = "list" /\ pc[c] = "active" /\ CanRun(c)
    /\ \/ /\ EntriesFrom(cursor[c]) # {}
          /\ found_keys' = [found_keys EXCEPT
                              ![c] = Append(@, KeyName(NextEntry(cursor[c])))]
          /\ cursor' = [cursor EXCEPT ![c] = NextEntry(cursor[c]) + 1]
          /\ UNCHANGED pc
       \/ /\ EntriesFrom(cursor[c]) = {}
          /\ pc' = [pc EXCEPT ![c] = "reqSuccess"]
          /\ UNCHANGED <<found_keys, cursor>>
    /\ UNCHANGED <<callVars, callerVars, db, promise, result, blocked,
                   dbVersion, storeCreated, cache, txQueue>>

\* cursorReq.onerror = () => rej(cursorReq.error)
cursorReq_onerror(c) ==
    /\ op[c] = "list" /\ pc[c] = "active"
    /\ Settle(c, "rejected", "requestError")
    /\ pc' = [pc EXCEPT ![c] = "reqError"]
    /\ UNCHANGED <<callVars, callerVars, db, found_keys, cursor, blocked,
                   dbVersion, storeCreated, cache, txQueue>>

\* transaction.oncomplete = () => { db.close(); res(found_keys); }
list_transaction_oncomplete(c) ==
    /\ op[c] = "list" /\ pc[c] = "reqSuccess"
    /\ Close(c)
    /\ Settle(c, "resolved", "found_keys")
    /\ Finish(c)
    /\ pc' = [pc EXCEPT ![c] = "complete"]
    /\ UNCHANGED <<callVars, callerVars, found_keys, cursor, blocked,
                   dbVersion, storeCreated, cache>>

\* transaction.onerror = () => { db.close(); rej(transaction.error); }
list_transaction_onerror(c) ==
    /\ op[c] = "list" /\ pc[c] = "reqError"
    /\ Close(c)
    /\ Settle(c, "rejected", "transactionError")
    /\ pc' = [pc EXCEPT ![c] = "txError"]
    /\ UNCHANGED <<callVars, callerVars, found_keys, cursor, blocked,
                   dbVersion, storeCreated, cache, txQueue>>

\* transaction.onabort = () => { db.close(); rej(transaction.error); }
list_transaction_onabort(c) ==
    /\ op[c] = "list" /\ pc[c] \in {"txError", "reqSuccess"}
    /\ Close(c)
    /\ Settle(c, "rejected", "transactionError")
    /\ Finish(c)
    /\ pc' = [pc EXCEPT ![c] = "aborted"]
    /\ UNCHANGED <<callVars, callerVars, found_keys, cursor, blocked,
                   dbVersion, storeCreated, cache>>

\* ------------------------------------------------------------ specification
Call(c) ==
    \/ loadCachedGame(c)
    \/ saveGameToCache(c)
    \/ deleteCachedGame(c)
    \/ listCachedVersions(c)

Event(c) ==
    \/ request_onupgradeneeded(c)
    \/ request_onblocked(c)
    \/ request_onerror(c)
    \/ request_onsuccess(c)
    \/ transaction_unhandled(c)
    \/ getReq_onsuccess(c)
    \/ getReq_onerror(c)
    \/ load_transaction_oncomplete(c)
    \/ load_transaction_onerror(c)
    \/ load_transaction_onabort(c)
    \/ putReq_success(c)
    \/ putReq_onerror(c)
    \/ save_transaction_oncomplete(c)
    \/ save_transaction_onerror(c)
    \/ save_transaction_onabort(c)
    \/ deleteReq_success(c)
    \/ deleteReq_onerror(c)
    \/ delete_transaction_oncomplete(c)
    \/ delete_transaction_onerror(c)
    \/ delete_transaction_onabort(c)
    \/ cursorReq_onsuccess(c)
    \/ cursorReq_onerror(c)
    \/ list_transaction_oncomplete(c)
    \/ list_transaction_onerror(c)
    \/ list_transaction_onabort(c)

Next == \E c \in Calls : Call(c) \/ Event(c)

Spec == Init /\ [][Next]_vars

SeqSpec == SeqInit /\ [][Next]_vars

\* The backend delivers the events it owes: every open request gets success
\* or error, every live transaction gets its request events and a terminal
\* event.  Nothing obliges the caller to make another call.
FairSpec == Init /\ [][Next]_vars /\ \A c \in Calls : WF_vars(Event(c))

\* ================================================================== claims
Range(q) == {q[i] : i \in 1..Len(q)}

\* the awaited call: the caller's latest one
Awaited(c) == c = cur

\* C1 (as claimed): round trip.  After an awaited saveGameToCache(b, k) that
\* resolved, with no later resolved save or delete of k, an awaited
\* loadCachedGame(k) that resolves does so with b, for every storable b and
\* every key, the default key included.
C1_RoundTrip ==
    \A c \in Calls :
        (Awaited(c) /\ op[c] = "load" /\ promise[c] = "resolved"
           /\ last[key[c]] \in StorableValues)
        => result[c] = last[key[c]]

\* C2: the promise of saveGameToCache is resolved only in a state where its
\* transaction has fired 'complete': never while the put has merely
\* succeeded, never when the transaction errored or aborted.
C2_SaveResolvesOnComplete ==
    \A c \in Calls :
        (op[c] = "save" /\ promise[c] = "resolved") => pc[c] = "complete"

C2_Witness ==
    \E c \in Calls :
        op[c] = "save" /\ promise[c] = "resolved" /\ cache[key[c]] = blob[c]

\* C3 (as claimed): once a call's transaction has reached a terminal outcome
\* (complete or abort) its connection is closed; no call ends with its
\* connection open.
C3_ClosedAtEnd ==
    \A c \in Calls :
        pc[c] \in {"complete", "aborted"} => db[c] = "closed"

\* C4 (as claimed): whenever the promise of a call is resolved, the
\* connection the call opened is closed.
C4_ClosedWhenResolved ==
    \A c \in Calls :
        promise[c] = "resolved" => db[c] = "closed"

\* C5 (as claimed): whenever the promise of a call is rejected for a request
\* failure, a transaction error or an abort, the connection the call opened
\* is closed.
C5_ClosedWhenRejected ==
    \A c \in Calls :
        (promise[c] = "rejected" /\ result[c] \in {"requestError", "transactionError"})
        => db[c] = "closed"

\* C6 (as claimed): loadCachedGame is rejected whenever its get request
\* failed or its transaction ended in error or abort; it is never resolved
\* in an execution where the transaction aborted.
C6_LoadRejectsOnFailure ==
    \A c \in Calls :
        (op[c] = "load" /\ pc[c] \in {"reqError", "txError", "aborted"})
        => promise[c] = "rejected"

\* C7: an awaited loadCachedGame(k) for a key with no entry (never saved, or
\* deleted by the latest resolved write) resolves with null once its get
\* request succeeds, and is rejected only after the backend failed the open
\* request, the get request or the transaction.
C7_LoadAbsentIsNull ==
    \A c \in Calls :
        (Awaited(c) /\ op[c] = "load" /\ last[key[c]] = Absent)
        => /\ pc[c] \in {"reqSuccess", "complete"}
                => promise[c] = "resolved" /\ result[c] = Null
           /\ promise[c] = "resolved" => result[c] = Null
           /\ promise[c] = "rejected"
                => pc[c] \in {"openFailed", "reqError", "txError", "aborted"}

C7_Witness ==
    \E c \in Calls : \E k \in Keys :
        /\ Awaited(c) /\ op[c] = "load" /\ last[key[c]] = Absent
        /\ ~had[key[c]]
        /\ promise[c] = "resolved" /\ result[c] = Null
        /\ cache[k] # Absent

\* C8 (as claimed): overwrite.  After an awaited save of b1 under k resolved
\* and then an awaited save of b2 under k resolved, an awaited
\* loadCachedGame(k) that resolves does so with b2.
C8_Overwrite ==
    \A c \in Calls :
        (Awaited(c) /\ op[c] = "load" /\ promise[c] = "resolved"
           /\ had[key[c]] /\ last[key[c]] \in StorableValues)
        => result[c] = last[key[c]]

\* C9: after an awaited save under k resolved and then an awaited
\* deleteCachedGame(k) resolved, an awaited loadCachedGame(k) that resolves
\* does so with null, and an awaited listCachedVersions() that resolves does
\* so with an array that does not hold k.
C9_DeleteThenLoad ==
    \A c \in Calls : \A k \in Keys :
        (Awaited(c) /\ had[k] /\ last[k] = Absent /\ promise[c] = "resolved")
        => /\ (op[c] = "load" /\ key[c] = k) => result[c] = Null
           /\ op[c] = "list" => k \notin Range(found_keys[c])

C9_Witness ==
    \E c \in Calls :
        /\ Awaited(c) /\ op[c] = "load" /\ promise[c] = "resolved"
        /\ had[key[c]] /\ last[key[c]] = Absent /\ result[c] = Null

\* the list half of C9 happens too: a list that resolved with the other key
C9_WitnessList ==
    \E c \in Calls : \E k \in Keys :
        /\ Awaited(c) /\ had[k] /\ last[k] = Absent /\ promise[c] = "resolved"
        /\ op[c] = "list"
        /\ found_keys[c] # <<>>

\* C10: an awaited deleteCachedGame(k) for a key with no entry resolves when
\* its transaction completes, and the store holds afterwards what it held
\* before: no entry under k, and under every other key what the caller's
\* latest resolved write left there.
C10_DeleteAbsent ==
    \A c \in Calls :
        (Awaited(c) /\ op[c] = "delete" /\ key[c] \in Keys /\ pc[c] = "complete"
           /\ ~had[key[c]])
        => /\ promise[c] = "resolved"
           /\ \A k \in Keys : cache[k] = last[k]
           /\ cache[key[c]] = Absent

C10_Witness ==
    \E c \in Calls : \E k \in Keys :
        /\ Awaited(c) /\ op[c] = "delete" /\ key[c] \in Keys /\ pc[c] = "complete"
        /\ ~had[key[c]]
        /\ promise[c] = "resolved"
        /\ k # key[c] /\ cache[k] # Absent

\* C11: an awaited listCachedVersions() that resolves does so from its
\* transaction's 'complete' event, with an array that holds exactly the keys
\* that have an entry in the store (the keys the caller's resolved saves and
\* deletes left there), each once.
C11_ListComplete ==
    \A c \in Calls :
        (Awaited(c) /\ op[c] = "list" /\ promise[c] = "resolved")
        => /\ pc[c] = "complete"
           /\ result[c] = "found_keys"
           /\ Range(found_keys[c]) = {k \in Keys : cache[k] # Absent}
           /\ Range(found_keys[c]) = {k \in Keys : last[k] # Absent}
           /\ Len(found_keys[c]) = Cardinality(Range(found_keys[c]))

C11_Witness ==
    \E c \in Calls :
        /\ Awaited(c) /\ op[c] = "list" /\ promise[c] = "resolved"
        /\ Range(found_keys[c]) = Keys
        /\ \E k \in Keys : had[k]

\* C12: across all opens, one after the other or overlapping, there is never
\* more than one "cache" store: createObjectStore runs only while the
\* database has none, every connection is to a database that has it, and an
\* open that finds the database at version 1 only sets up its connection:
\* it changes neither the store nor its entries.
C12_StoreCreatedOnce ==
    /\ [](/\ storeCreated <= 1
          /\ \A c \in Calls : db[c] = "open" => storeCreated = 1)
    /\ [][/\ storeCreated' > storeCreated => (storeCreated = 0 /\ dbVersion = 0)
          /\ \A c \in Calls :
               (pc[c] = "opening" /\ pc'[c] \in {"active", "threw"})
               => /\ cache' = cache
                  /\ storeCreated' = storeCreated
                  /\ dbVersion' = dbVersion
                  /\ db'[c] = "open"]_vars

C12_Witness ==
    \E c, d \in Calls :
        /\ c # d
        /\ db[c] = "open" /\ db[d] = "open"
        /\ storeCreated = 1
        /\ \E k \in Keys : cache[k] # Absent

\* C13: a 'blocked' event on the open request only logs: the step that
\* delivers it leaves the request pending and the promise unsettled, a
\* blocked request that is still pending has settled nothing, and when
\* 'success' then fires the call gets its connection and goes on with its
\* transaction as any other call.
C13_BlockedStaysPending ==
    /\ [](\A c \in Calls :
            (blocked[c] /\ pc[c] \in {"opening", "upgrading"})
            => promise[c] = "pending" /\ db[c] = "none")
    /\ [][\A c \in Calls :
            /\ (~blocked[c] /\ blocked'[c])
               => /\ pc[c] = "opening" /\ pc'[c] = "opening"
                  /\ promise'[c] = "pending" /\ db'[c] = "none"
                  /\ UNCHANGED <<cache, txQueue, dbVersion, storeCreated>>
            /\ (blocked[c] /\ pc[c] \in {"opening", "upgrading"}
                  /\ pc'[c] \notin {"opening", "upgrading", "openFailed"})
               => /\ db'[c] = "open"
                  /\ pc'[c] \in {"active", "threw"}
                  /\ blocked'[c]]_vars

C13_Witness ==
    \E c \in Calls :
        /\ blocked[c]
        /\ op[c] = "save" /\ pc[c] = "complete" /\ promise[c] = "resolved"
        /\ cache[key[c]] = blob[c]

\* C14: when the backend refuses the open, the call (load, save, delete or
\* list) is rejected with the open error, has no connection, no transaction
\* and no store request, and stays so (no retry); the step that delivers the
\* refusal leaves the entries of the store as they were.
C14_OpenFailure ==
    /\ [](\A c \in Calls :
            pc[c] = "openFailed"
            => /\ promise[c] = "rejected" /\ result[c] = "openError"
               /\ db[c] = "none"
               /\ ~InQueue(c))
    /\ [][\A c \in Calls :
            /\ (pc[c] # "openFailed" /\ pc'[c] = "openFailed") => cache' = cache
            /\ (pc[c] = "openFailed" /\ op'[c] = op[c] /\ pc'[c] # "opening")
               => pc'[c] = "openFailed"]_vars

C14_Witness ==
    \E c \in Calls :
        /\ pc[c] = "openFailed"
        /\ op[c] = "save" /\ cache[key[c]] # blob[c]
        /\ \E k \in Keys : cache[k] # Absent

\* C15: in every interleaving, a connection is closed only by a handler of
\* the call that opened it, and that step leaves every other call alone:
\* the other call's connection, position, promise and live transaction are
\* what they were.
C15_OwnConnection ==
    [][\A c \in Calls :
          (db[c] = "open" /\ db'[c] = "closed")
          => /\ pc[c] \in {"reqSuccess", "reqError", "txError"}
             /\ pc'[c] \in {"complete", "txError", "aborted"}
             /\ \A d \in Calls \ {c} :
                   /\ db'[d] = db[d]
                   /\ pc'[d] = pc[d]
                   /\ promise'[d] = promise[d]
                   /\ (\E i \in 1..Len(txQueue) : txQueue[i] = d)
                        => (\E i \in 1..Len(txQueue') : txQueue'[i] = d)]_vars

C15_Witness ==
    \E c, d \in Calls :
        /\ c # d
        /\ db[c] = "closed" /\ pc[c] = "complete" /\ op[c] = "list"
        /\ db[d] = "open" /\ pc[d] = "reqSuccess" /\ op[d] = "load"

\* C16 (as claimed): within one call, open-success, store request,
\* transaction terminal event and close happen in this order and none is
\* skipped: a call with a transaction has had its open succeed, a closed
\* connection means the transaction has had its terminal event (error,
\* complete or abort), and a call whose transaction is over has issued its
\* request and closed its connection.
C16_StrictOrder ==
    \A c \in Calls :
        /\ pc[c] \in {"active", "reqSuccess", "reqError", "txError", "complete", "aborted"}
             => db[c] # "none"
        /\ db[c] = "closed" => pc[c] \in {"txError", "complete", "aborted"}
        /\ (op[c] = "load" /\ pc[c] = "reqSuccess") => db[c] = "open"
        /\ pc[c] \in {"complete", "aborted"} => (~Throws(c) /\ db[c] = "closed")

\* C17 (as claimed): a call whose executor threw after the connection was
\* opened (deleteCachedGame without a key, saveGameToCache of a value that
\* cannot be cloned) is rejected and ends with its connection closed.
C17_ThrowStillCloses ==
    \A c \in Calls :
        (Throws(c) /\ pc[c] = "complete")
        => promise[c] = "rejected" /\ db[c] = "closed"

\* C18: frame.  In every interleaving, the entry under a key k changes only
\* in the step that commits a saveGameToCache or deleteCachedGame on k; no
\* step of loadCachedGame or listCachedVersions changes the store, and a
\* save or delete on k leaves every other key as it was.
C18_Frame ==
    [][\A k \in Keys :
          cache'[k] # cache[k]
          => \E c \in Calls :
                /\ op[c] \in {"save", "delete"}
                /\ key[c] = k
                /\ pc[c] = "reqSuccess" /\ pc'[c] = "complete"
                /\ \A j \in Keys \ {k} : cache'[j] = cache[j]]_vars

C18_Witness ==
    \E c, d \in Calls : \E k \in Keys :
        /\ c # d
        /\ op[c] = "save" /\ pc[c] = "complete" /\ promise[c] = "resolved"
        /\ k # key[c] /\ cache[k] # Absent /\ cache[k] # cache[key[c]]
        /\ op[d] \in {"load", "list"} /\ pc[d] = "reqSuccess"

\* C19: failure atomicity.  Whenever an awaited saveGameToCache or
\* deleteCachedGame is rejected (open refused, request thrown or failed,
\* transaction errored or aborted), the store holds under every key what it
\* held before the call: what the caller's latest resolved save or delete
\* left there.  No write call is both rejected and applied.
C19_FailureAtomic ==
    \A c \in Calls :
        (Awaited(c) /\ op[c] \in {"save", "delete"} /\ promise[c] = "rejected")
        => \A k \in Keys : cache[k] = last[k]

C19_Witness ==
    \E c \in Calls :
        /\ Awaited(c) /\ op[c] = "save" /\ promise[c] = "rejected"
        /\ pc[c] = "aborted" /\ result[c] = "transactionError"
        /\ blob[c] \in StorableValues
        /\ cache[key[c]] \notin {Absent, blob[c]}

\* C20: liveness.  When the backend delivers success or error to every open
\* request and a terminal event to every transaction, no call (load, save,
\* delete, list) keeps its promise pending forever: again and again each
\* slot is either unused or holds a settled promise.  A call whose open
\* failed or whose transaction is over is settled, so the slot is taken by
\* a new call only after the previous one settled; and a settled promise
\* keeps its outcome and value (resolved or rejected, exactly once).
C20_EveryCallSettles ==
    /\ \A c \in Calls : []<>(op[c] = "none" \/ promise[c] # "pending")
    /\ [](\A c \in Calls :
            (op[c] # "none" /\ Finished(c)) => promise[c] # "pending")
    /\ [][\A c \in Calls :
            (promise[c] # "pending" /\ pc'[c] # "opening")
            => promise'[c] = promise[c] /\ result'[c] = result[c]]_vars

C20_Witness ==
    \E c, d \in Calls :
        /\ c # d
        /\ blocked[c] /\ promise[c] = "rejected" /\ pc[c] = "aborted" /\ op[c] = "list"
        /\ promise[d] = "resolved" /\ pc[d] = "complete" /\ op[d] = "delete"

====
